---- MODULE Spec2Model ----
(***************************************************************************)
(* MemoryPool<T, BlockSize> (C-11/MemoryPool.h, C-11/MemoryPool.tcc).      *)
(*                                                                         *)
(* Addresses are byte addresses (naturals), 0 is nullptr.  Memory is a     *)
(* map from the pointer-aligned words of a small arena to the pointer      *)
(* stored there: the only words the pool ever reads or writes are the      *)
(* first word of a block (link to the previous block) and the first word   *)
(* of a slot (Slot_::next).  Junk is the content of a word whose value is  *)
(* indeterminate: fresh from operator new, released by operator delete,    *)
(* or handed to the caller as element storage.                             *)
(***************************************************************************)
EXTENDS Integers, Sequences, FiniteSets, TLC

VARIABLES
  sizeofT,      \* sizeof(T), template parameter T
  alignofT,     \* alignof(T)
  BlockSize,    \* template parameter BlockSize
  alive,        \* the pool objects within their lifetime
  pool,         \* pool id -> the four data members of the object
  mem,          \* word address -> pointer stored there, or Junk
  heap,         \* base addresses of the blocks operator new has handed out
  live,         \* pool id -> addresses the caller holds and may deallocate there
  freed,        \* pool id -> deallocated addresses, most recent first (history)
  acquired,     \* pool id -> number of blocks the pool got from operator new
  peak,         \* pool id -> largest number of simultaneously live slots
  yields,       \* pool id -> slots-per-block of each block acquired, in order
  ever,         \* the pool objects constructed so far
  budget,       \* calls still to be explored in the several-pool specifications
  undef,        \* the undefined behaviour met, if any (Defined: none)
  called,       \* what the last newElement/deleteElement called, in order
  event         \* the last call: operation, pool, argument, result

vars == <<sizeofT, alignofT, BlockSize, alive, pool, mem, heap, live, freed,
          acquired, peak, yields, ever, budget, undef, called, event>>

----------------------------------------------------------------------------
(* Bounds of the model. *)

MaxBlocks == 2       \* blocks the arena has room for
MaxFree == 3         \* longest free list explored
MaxPools == 2        \* pool objects in the several-pool specifications
MaxCalls == 6        \* calls explored in the several-pool specifications

(* Platform constants. *)

PtrSize == 8         \* sizeof(Slot_*), sizeof(char*)
PtrAlign == 8        \* alignof(Slot_*)
UintptrModulus == 1073741824   \* uintptr_t arithmetic is modular (2^64; 2^30 here)
SizeModulus == 1073741824      \* size_type arithmetic likewise
ArenaBase == 8       \* lowest address operator new may return

Junk == -1
Defined == "defined"
Pools == 1..MaxPools

(* The instantiations explored: <<sizeof(T), alignof(T), BlockSize>>. *)
TypeParams ==
  { <<4, 4, 16>>, <<8, 8, 24>>, <<12, 4, 32>>, <<16, 16, 32>>, <<16, 16, 40>>,
    <<16, 16, 48>> }
PoolParams == { <<8, 8, 24>> }

Max(a, b) == IF a >= b THEN a ELSE b
RoundUp(n, a) == ((n + a - 1) \div a) * a

(* union Slot_ { value_type element; Slot_* next; } *)
SlotAlign == Max(alignofT, PtrAlign)
SlotSize == RoundUp(Max(sizeofT, PtrSize), SlotAlign)

(* static_assert(BlockSize >= 2 * sizeof(slot_type_)) *)
StaticAssert == BlockSize >= 2 * SlotSize

(* Room for MaxBlocks blocks and one spare word, so that block bases vary. *)
ArenaEnd == ArenaBase + MaxBlocks * BlockSize + PtrSize
Words == { a \in ArenaBase..(ArenaEnd - 1) : a % PtrSize = 0 }
PtrValues == {0} \cup Words

BadAlloc == -2
(* operator new(BlockSize): any pointer-aligned region of BlockSize bytes that
   overlaps no block still held, or std::bad_alloc. *)
OperatorNew(hp) ==
  { b \in Words : /\ b + BlockSize <= ArenaEnd
                  /\ \A h \in hp : b + BlockSize <= h \/ h + BlockSize <= b }
  \cup {BadAlloc}

(* Reading a word: an indeterminate word reads as any pointer value. *)
Indeterminate(m, a) == a \notin DOMAIN m \/ m[a] = Junk
Load(m, a) == IF Indeterminate(m, a) THEN PtrValues ELSE {m[a]}
(* The word at a lies in a block that operator new handed out and that has not
   been released. *)
Held(hp, a) == \E h \in hp : h <= a /\ a < h + BlockSize
Store(m, a, v) == IF a \in DOMAIN m THEN [m EXCEPT ![a] = v] ELSE m

----------------------------------------------------------------------------
(* The member functions, as functions of the object's members. *)

NullPool == [currentBlock_ |-> 0, currentSlot_ |-> 0, lastSlot_ |-> 0, freeSlots_ |-> 0]

(* Mutant: the body is not padded. *)
padPointerNone(p, align) == 0

padPointer(p, align) == ((align - p) % UintptrModulus) % align

(* Mutant: the limit cursor is set to the end of the block. *)
allocateBlockLimitAtEnd(s, newBlock) ==
  LET body == newBlock + PtrSize
      bodyPadding == padPointer(body, SlotAlign)
  IN [s EXCEPT !.currentBlock_ = newBlock,
               !.currentSlot_ = body + bodyPadding,
               !.lastSlot_ = newBlock + BlockSize]

(* allocateBlock() once operator new has returned newBlock. *)
allocateBlock(s, newBlock) ==
  LET body == newBlock + PtrSize
      bodyPadding == padPointer(body, SlotAlign)
  IN [s EXCEPT !.currentBlock_ = newBlock,
               !.currentSlot_ = body + bodyPadding,
               !.lastSlot_ = newBlock + BlockSize - SlotSize + 1]

(* Mutant: the cursor advances by a pointer, not by a slot. *)
NextSlotByPointer(slot) == slot + PtrSize

(* currentSlot_++ *)
NextSlot(slot) == slot + SlotSize

(* Slots a block at base b supplies through bump allocation. *)
SlotsOfBlock(b) ==
  LET s == allocateBlock(NullPool, b)
  IN { a \in s.currentSlot_..(s.lastSlot_ - 1) : (a - s.currentSlot_) % SlotSize = 0 }

(* Mutant: the head is returned and left on the free list. *)
popFreeKeepsHead(s, m) ==
  { [s |-> s, m |-> m, ret |-> s.freeSlots_, threw |-> FALSE, grew |-> FALSE,
     wild |-> FALSE] }

(* allocate(), free list not empty: pop its head. *)
popFree(s, m) ==
  { [s |-> [s EXCEPT !.freeSlots_ = nx], m |-> m, ret |-> s.freeSlots_,
     threw |-> FALSE, grew |-> FALSE, wild |-> Indeterminate(m, s.freeSlots_)] :
     nx \in Load(m, s.freeSlots_) }

(* Mutant: the block counts as used up while its last slot is still unused. *)
ExhaustedEarly(s) == s.currentSlot_ + SlotSize >= s.lastSlot_

(* if (currentSlot_ >= lastSlot_) *)
Exhausted(s) == s.currentSlot_ >= s.lastSlot_

(* Mutant: the cursor is returned and not advanced. *)
bumpKeepsCursor(s, m, grew) ==
  [s |-> s, m |-> m, ret |-> s.currentSlot_, threw |-> FALSE, grew |-> grew,
   wild |-> FALSE]

(* return reinterpret_cast<pointer>(currentSlot_++) *)
bump(s, m, grew) ==
  [s |-> [s EXCEPT !.currentSlot_ = NextSlot(s.currentSlot_)], m |-> m,
   ret |-> s.currentSlot_, threw |-> FALSE, grew |-> grew, wild |-> FALSE]

(* Mutant: the cursor is advanced before the block is asked for. *)
growthFailedAfterBump(s, m) ==
  [s |-> [s EXCEPT !.currentSlot_ = s.currentSlot_ + SlotSize], m |-> m, ret |-> 0,
   threw |-> TRUE, grew |-> FALSE, wild |-> FALSE]

(* operator new threw inside allocateBlock(): its first statement, so the
   exception leaves allocateBlock() and allocate() with nothing written. *)
growthFailed(s, m) ==
  [s |-> s, m |-> m, ret |-> 0, threw |-> TRUE, grew |-> FALSE, wild |-> FALSE]

(* The block operator new returned is indeterminate; allocateBlock() writes the
   back-reference to the previous block into its first word. *)
linkBlock(s, m, newBlock) ==
  Store([a \in DOMAIN m |->
           IF newBlock <= a /\ a < newBlock + BlockSize THEN Junk ELSE m[a]],
        newBlock, s.currentBlock_)

(* Mutant: with the free list empty a block is acquired whether or not the
   current block has room. *)
allocateGrowsAlways(s, m, nb) ==
  IF s.freeSlots_ # 0
  THEN popFree(s, m)
  ELSE IF nb = BadAlloc
       THEN { growthFailed(s, m) }
       ELSE { bump(allocateBlock(s, nb), linkBlock(s, m, nb), TRUE) }

(* allocate(): the outcomes, given the pool s, memory m and what operator new
   would answer (nb).  threw: std::bad_alloc left the call. *)
allocate(s, m, nb) ==
  IF s.freeSlots_ # 0
  THEN popFree(s, m)
  ELSE IF Exhausted(s)
       THEN IF nb = BadAlloc
            THEN { growthFailed(s, m) }
            ELSE { bump(allocateBlock(s, nb), linkBlock(s, m, nb), TRUE) }
       ELSE { bump(s, m, FALSE) }

(* Mutant: the head is moved before the link is written, so the slot links to
   itself. *)
deallocateSelfLink(s, m, p) ==
  IF p # 0
  THEN [s |-> [s EXCEPT !.freeSlots_ = p], m |-> Store(m, p, p)]
  ELSE [s |-> s, m |-> m]

(* Mutant: the slot is pushed with a null link, dropping the list behind it. *)
deallocateDropsList(s, m, p) ==
  IF p # 0
  THEN [s |-> [s EXCEPT !.freeSlots_ = p], m |-> Store(m, p, 0)]
  ELSE [s |-> s, m |-> m]

(* Mutant: the null test is missing. *)
deallocateUnguarded(s, m, p) ==
  [s |-> [s EXCEPT !.freeSlots_ = p], m |-> Store(m, p, s.freeSlots_)]

(* Mutant: the slot is not put on the free list. *)
deallocateLeaks(s, m, p) == [s |-> s, m |-> m]

(* deallocate(p, n) *)
deallocate(s, m, p) ==
  IF p # 0
  THEN [s |-> [s EXCEPT !.freeSlots_ = p], m |-> Store(m, p, s.freeSlots_)]
  ELSE [s |-> s, m |-> m]

(* construct(U* p, Args&&... args): new (p) U(args...) *)
construct(m, p) == Store(m, p, Junk)

(* destroy(U* p): p->~U(); the storage of the object is left as it is, its
   value indeterminate. *)
destroy(m, p) == Store(m, p, Junk)

(* newElement(args...): the outcomes of allocate(), the element constructed in
   the slot returned; called lists what was called, and at which address. *)
newElement(s, m, nb) ==
  { [s |-> r.s, m |-> IF r.threw THEN r.m ELSE construct(r.m, r.ret),
     ret |-> r.ret, threw |-> r.threw, grew |-> r.grew, wild |-> r.wild,
     called |-> IF r.threw THEN << <<"allocate", 0>> >>
               ELSE << <<"allocate", r.ret>>, <<"construct", r.ret>> >>] :
    r \in allocate(s, m, nb) }

(* Mutant: the element is not destroyed before its slot is given back. *)
deleteElementNoDestroy(s, m, p) ==
  IF p # 0
  THEN LET r == deallocate(s, m, p)
       IN [s |-> r.s, m |-> r.m, called |-> << <<"deallocate", p>> >>]
  ELSE [s |-> s, m |-> m, called |-> << >>]

(* deleteElement(p) *)
deleteElement(s, m, p) ==
  IF p # 0
  THEN LET r == deallocate(s, destroy(m, p), p)
       IN [s |-> r.s, m |-> r.m, called |-> << <<"destroy", p>>, <<"deallocate", p>> >>]
  ELSE [s |-> s, m |-> m, called |-> << >>]

(* max_size(), in size_type arithmetic: -1 converts to the largest size_type. *)
max_size ==
  LET maxBlocks == (SizeModulus - 1) \div BlockSize
  IN ((((BlockSize - PtrSize) % SizeModulus) \div SlotSize) * maxBlocks) % SizeModulus

(* Mutant: only the current block is released. *)
destroyWalkOne(curr, m, hp) ==
  IF curr = 0 THEN [m |-> m, heap |-> hp, bad |-> FALSE]
  ELSE [m |-> m, heap |-> hp \ {curr}, bad |-> FALSE]

(* ~MemoryPool(): walk the chain from curr, releasing each block.  bad: operator
   delete was handed an address that is no block held, or the link read was
   indeterminate; what follows such a call is undefined and the walk stops. *)
RECURSIVE destroyWalk(_, _, _)
destroyWalk(curr, m, hp) ==
  IF curr = 0 THEN [m |-> m, heap |-> hp, bad |-> FALSE]
  ELSE IF curr \notin hp \/ m[curr] = Junk THEN [m |-> m, heap |-> hp, bad |-> TRUE]
  ELSE destroyWalk(m[curr],
                   [a \in DOMAIN m |->
                      IF curr <= a /\ a < curr + BlockSize THEN Junk ELSE m[a]],
                   hp \ {curr})

(* Mutant: the copy takes the members of its source, as a defaulted copy would. *)
copyConstructShallow(src) == src

(* MemoryPool(const MemoryPool&), MemoryPool(const MemoryPool<U>&): the members of
   the new object; both delegate to MemoryPool() and read nothing of src. *)
copyConstruct(src) == NullPool

(* Mutant: the source keeps its block chain. *)
moveConstructKeepsChain(src) ==
  [dst |-> [currentBlock_ |-> src.currentBlock_, currentSlot_ |-> src.currentSlot_,
            lastSlot_ |-> src.lastSlot_, freeSlots_ |-> src.freeSlots_],
   src |-> src]

(* MemoryPool(MemoryPool&& memoryPool): the members of the new object and of
   memoryPool afterwards.  Line 92 reads memoryPool.freeSlots, which names no
   member; the only member it can mean, freeSlots_, is what is modelled. *)
moveConstruct(src) ==
  [dst |-> [currentBlock_ |-> src.currentBlock_, currentSlot_ |-> src.currentSlot_,
            lastSlot_ |-> src.lastSlot_, freeSlots_ |-> src.freeSlots_],
   src |-> [src EXCEPT !.currentBlock_ = 0]]

(* Mutant: the block pointer is moved like the other members, not swapped. *)
moveAssignNoSwap(dst, src) ==
  [dst |-> [currentBlock_ |-> src.currentBlock_, currentSlot_ |-> src.currentSlot_,
            lastSlot_ |-> src.lastSlot_, freeSlots_ |-> src.freeSlots_],
   src |-> [src EXCEPT !.currentBlock_ = 0]]

(* operator=(MemoryPool&& memoryPool), this != &memoryPool. *)
moveAssign(dst, src) ==
  [dst |-> [currentBlock_ |-> src.currentBlock_, currentSlot_ |-> src.currentSlot_,
            lastSlot_ |-> src.lastSlot_, freeSlots_ |-> src.freeSlots_],
   src |-> [src EXCEPT !.currentBlock_ = dst.currentBlock_]]

(* The blocks reachable from currentBlock_ through the back-references. *)
RECURSIVE chainFrom(_, _, _)
chainFrom(curr, m, seen) ==
  IF curr = 0 \/ curr \in seen \/ curr \notin DOMAIN m \/ m[curr] = Junk THEN seen
  ELSE chainFrom(m[curr], m, seen \cup {curr})
Chain(p) == chainFrom(pool[p].currentBlock_, mem, {})
ChainOf(s, m) == chainFrom(s.currentBlock_, m, {})

(* The slots reachable from freeSlots_ through Slot_::next. *)
FreeList(p) == chainFrom(pool[p].freeSlots_, mem, {}) \cup
               (IF pool[p].freeSlots_ \in Words THEN {pool[p].freeSlots_} ELSE {})

(* The free list as the sequence of slots met from head through Slot_::next,
   up to the null link; Junk closes the sequence where the walk meets a link
   that is indeterminate or does not end within fuel steps. *)
RECURSIVE freeWalk(_, _, _)
freeWalk(head, m, fuel) ==
  IF head = 0 THEN << >>
  ELSE IF fuel = 0 \/ head \notin DOMAIN m THEN <<Junk>>
  ELSE <<head>> \o (IF m[head] = Junk THEN <<Junk>>
                    ELSE freeWalk(m[head], m, fuel - 1))
FreeSlots(p) == freeWalk(pool[p].freeSlots_, mem, Cardinality(Words))

(* The slots pool p has handed out through its bump cursor: every slot of the
   blocks behind the current one, which were used up before the next was
   acquired, and the slots of the current block below currentSlot_. *)
Bumped(p) ==
  UNION { { a \in SlotsOfBlock(b) :
              b = pool[p].currentBlock_ => a < pool[p].currentSlot_ } :
          b \in Chain(p) }

----------------------------------------------------------------------------
(* The calls. *)

Ev(op, p, arg, ret, threw) ==
  [op |-> op, pool |-> p, arg |-> arg, ret |-> ret, threw |-> threw]

(* Every call takes one from the budget. *)
Tick ==
  /\ budget > 0
  /\ budget' = budget - 1

(* A call of allocate() by pool p; with build, the call is made by newElement(),
   which then constructs the element in the slot returned. *)
AllocateCall(p, op, build) ==
  /\ undef = Defined
  /\ p \in alive
  /\ \E nb \in OperatorNew(heap) :
     \E r \in IF build THEN newElement(pool[p], mem, nb) ELSE allocate(pool[p], mem, nb) :
       /\ pool' = [pool EXCEPT ![p] = r.s]
       /\ mem' = r.m
       /\ called' = IF build THEN r.called ELSE << >>
       /\ heap' = IF r.grew THEN heap \cup {nb} ELSE heap
       /\ live' = IF r.threw THEN live ELSE [live EXCEPT ![p] = @ \cup {r.ret}]
       /\ freed' = IF r.threw \/ freed[p] = <<>> THEN freed
                   ELSE [freed EXCEPT ![p] = Tail(@)]
       /\ acquired' = IF r.grew THEN [acquired EXCEPT ![p] = @ + 1] ELSE acquired
       /\ yields' = IF r.grew
                    THEN [yields EXCEPT ![p] = Append(@, Cardinality(SlotsOfBlock(nb)))]
                    ELSE yields
       /\ peak' = [peak EXCEPT ![p] = Max(@, Cardinality(live'[p]))]
       /\ undef' = IF r.wild THEN "indeterminate read" ELSE undef
       /\ event' = Ev(op, p, 0, r.ret, r.threw)
  /\ UNCHANGED <<sizeofT, alignofT, BlockSize, alive, ever>>

(* allocate(n, hint) *)
Allocate(p) == AllocateCall(p, "allocate", FALSE)

(* newElement(args...): allocate(), then construct<value_type>(result, args...) *)
NewElement(p) == AllocateCall(p, "newElement", TRUE)

(* deallocate(p) for an address this pool returned and that is still live,
   or for nullptr. *)
Deallocate(p) ==
  /\ undef = Defined
  /\ p \in alive
  /\ Len(freed[p]) < MaxFree
  /\ \E a \in live[p] \cup {0} :
       LET r == deallocate(pool[p], mem, a)
       IN /\ pool' = [pool EXCEPT ![p] = r.s]
          /\ mem' = r.m
          /\ live' = [live EXCEPT ![p] = @ \ {a}]
          /\ freed' = IF a = 0 THEN freed ELSE [freed EXCEPT ![p] = <<a>> \o @]
          /\ undef' = IF a # 0 /\ ~Held(heap, a) THEN "write to released memory"
                       ELSE undef
          /\ called' = << >>
          /\ event' = Ev("deallocate", p, a, 0, FALSE)
  /\ UNCHANGED <<sizeofT, alignofT, BlockSize, alive, heap, acquired, peak, yields,
                 ever>>

(* deleteElement(p) for an element of this pool that is still live, or for
   nullptr. *)
DeleteElement(p) ==
  /\ undef = Defined
  /\ p \in alive
  /\ Len(freed[p]) < MaxFree
  /\ \E a \in live[p] \cup {0} :
       LET r == deleteElement(pool[p], mem, a)
       IN /\ pool' = [pool EXCEPT ![p] = r.s]
          /\ mem' = r.m
          /\ called' = r.called
          /\ live' = [live EXCEPT ![p] = @ \ {a}]
          /\ freed' = IF a = 0 THEN freed ELSE [freed EXCEPT ![p] = <<a>> \o @]
          /\ undef' = IF a # 0 /\ ~Held(heap, a) THEN "write to released memory"
                       ELSE undef
          /\ event' = Ev("deleteElement", p, a, 0, FALSE)
  /\ UNCHANGED <<sizeofT, alignofT, BlockSize, alive, heap, acquired, peak, yields,
                 ever>>

(* max_size() *)
MaxSize(p) ==
  /\ undef = Defined
  /\ p \in alive
  /\ called' = << >>
  /\ event' = Ev("max_size", p, 0, max_size, FALSE)
  /\ UNCHANGED <<sizeofT, alignofT, BlockSize, alive, pool, mem, heap, live, freed,
                 acquired, peak, yields, ever, undef>>

(* The next pool object to be constructed: objects are numbered in the order of
   their construction. *)
NextPool == { q \in Pools : q \notin ever /\ \A r \in Pools : r < q => r \in ever }

(* The history kept for a pool object starts afresh with the object. *)
Fresh(f, q, v) == [f EXCEPT ![q] = v]

(* MemoryPool() *)
DefaultConstruct(q) ==
  /\ undef = Defined
  /\ q \in NextPool
  /\ alive' = alive \cup {q}
  /\ ever' = ever \cup {q}
  /\ pool' = [pool EXCEPT ![q] = NullPool]
  /\ live' = Fresh(live, q, {})
  /\ freed' = Fresh(freed, q, <<>>)
  /\ acquired' = Fresh(acquired, q, 0)
  /\ peak' = Fresh(peak, q, 0)
  /\ yields' = Fresh(yields, q, <<>>)
  /\ called' = << >>
  /\ event' = Ev("MemoryPool", q, 0, 0, FALSE)
  /\ UNCHANGED <<sizeofT, alignofT, BlockSize, mem, heap, undef>>

(* MemoryPool(const MemoryPool&) and MemoryPool(const MemoryPool<U>&): q is
   constructed as a copy of p. *)
CopyConstruct(q, p) ==
  /\ undef = Defined
  /\ q \in NextPool
  /\ p \in alive
  /\ alive' = alive \cup {q}
  /\ ever' = ever \cup {q}
  /\ pool' = [pool EXCEPT ![q] = copyConstruct(pool[p])]
  /\ live' = Fresh(live, q, {})
  /\ freed' = Fresh(freed, q, <<>>)
  /\ acquired' = Fresh(acquired, q, 0)
  /\ peak' = Fresh(peak, q, 0)
  /\ yields' = Fresh(yields, q, <<>>)
  /\ called' = << >>
  /\ event' = Ev("copyConstruct", q, p, 0, FALSE)
  /\ UNCHANGED <<sizeofT, alignofT, BlockSize, mem, heap, undef>>

(* MemoryPool(MemoryPool&&): q is constructed from p.  The caller's live
   allocations go with the pool they were moved to. *)
MoveConstruct(q, p) ==
  /\ undef = Defined
  /\ q \in NextPool
  /\ p \in alive
  /\ alive' = alive \cup {q}
  /\ ever' = ever \cup {q}
  /\ LET r == moveConstruct(pool[p])
     IN pool' = [pool EXCEPT ![q] = r.dst, ![p] = r.src]
  /\ live' = [live EXCEPT ![q] = live[p], ![p] = {}]
  /\ freed' = Fresh(freed, q, <<>>)
  /\ acquired' = Fresh(acquired, q, 0)
  /\ peak' = Fresh(peak, q, 0)
  /\ yields' = Fresh(yields, q, <<>>)
  /\ called' = << >>
  /\ event' = Ev("moveConstruct", q, p, 0, FALSE)
  /\ UNCHANGED <<sizeofT, alignofT, BlockSize, mem, heap, undef>>

(* q = std::move(p); q = std::move(q) is the case this == &memoryPool. *)
MoveAssign(q, p) ==
  /\ undef = Defined
  /\ q \in alive
  /\ p \in alive
  /\ IF q = p
     THEN UNCHANGED <<pool, live>>
     ELSE /\ LET r == moveAssign(pool[q], pool[p])
             IN pool' = [pool EXCEPT ![q] = r.dst, ![p] = r.src]
          /\ live' = [live EXCEPT ![q] = live[p], ![p] = {}]
  /\ called' = << >>
  /\ event' = Ev("moveAssign", q, p, 0, FALSE)
  /\ UNCHANGED <<sizeofT, alignofT, BlockSize, alive, mem, heap, freed, acquired,
                 peak, yields, ever, undef>>

(* ~MemoryPool(): the object's lifetime ends. *)
Destroy(p) ==
  /\ undef = Defined
  /\ p \in alive
  /\ LET r == destroyWalk(pool[p].currentBlock_, mem, heap)
     IN /\ mem' = r.m
        /\ heap' = r.heap
        /\ undef' = IF r.bad THEN "bad free" ELSE undef
  /\ alive' = alive \ {p}
  /\ pool' = [pool EXCEPT ![p] = NullPool]
  /\ live' = [live EXCEPT ![p] = {}]
  /\ freed' = [freed EXCEPT ![p] = <<>>]
  /\ called' = << >>
  /\ event' = Ev("destroy", p, 0, 0, FALSE)
  /\ UNCHANGED <<sizeofT, alignofT, BlockSize, acquired, peak, yields, ever>>

----------------------------------------------------------------------------
InitParams(params) ==
  /\ \E t \in params : sizeofT = t[1] /\ alignofT = t[2] /\ BlockSize = t[3]
  /\ StaticAssert

InitRest(born, calls) ==
  /\ alive = born
  /\ pool = [p \in Pools |-> NullPool]
  /\ mem = [a \in Words |-> Junk]
  /\ heap = {}
  /\ live = [p \in Pools |-> {}]
  /\ freed = [p \in Pools |-> <<>>]
  /\ acquired = [p \in Pools |-> 0]
  /\ peak = [p \in Pools |-> 0]
  /\ yields = [p \in Pools |-> <<>>]
  /\ ever = born
  /\ budget = calls
  /\ undef = Defined
  /\ called = << >>
  /\ event = Ev("MemoryPool", 1, 0, 0, FALSE)

(* One pool, default-constructed, never moved from or into; its caller builds an
   element in every slot it is given. *)
Init == InitParams(TypeParams) /\ InitRest({1}, 0)

Next ==
  \/ NewElement(1) /\ UNCHANGED budget
  \/ Deallocate(1) /\ UNCHANGED budget
  \/ DeleteElement(1) /\ UNCHANGED budget
  \/ MaxSize(1) /\ UNCHANGED budget
  \/ Destroy(1) /\ UNCHANGED budget

Spec == Init /\ [][Next]_vars

(* Several pools of one instantiation: construction, copy construction,
   allocation, deallocation, destruction. *)
InitPools == InitParams(PoolParams) /\ InitRest({1}, MaxCalls)

NextCopy ==
  \E p \in Pools :
    \/ NewElement(p) /\ Tick
    \/ Deallocate(p) /\ Tick
    \/ Destroy(p) /\ Tick
    \/ DefaultConstruct(p) /\ Tick
    \/ \E q \in Pools : CopyConstruct(q, p) /\ Tick

SpecCopy == InitPools /\ [][NextCopy]_vars

(* The same with move construction and move assignment. *)
NextPools ==
  \E p \in Pools :
    \/ NewElement(p) /\ Tick
    \/ Deallocate(p) /\ Tick
    \/ Destroy(p) /\ Tick
    \/ DefaultConstruct(p) /\ Tick
    \/ \E q \in Pools : CopyConstruct(q, p) /\ Tick
    \/ \E q \in Pools : MoveConstruct(q, p) /\ Tick
    \/ \E q \in Pools : MoveAssign(q, p) /\ Tick

SpecPools == InitPools /\ [][NextPools]_vars

(* Allocation by allocate(), moves and destruction only. *)
NextMove ==
  \E p \in Pools :
    \/ Allocate(p) /\ Tick
    \/ Destroy(p) /\ Tick
    \/ DefaultConstruct(p) /\ Tick
    \/ \E q \in Pools : MoveConstruct(q, p) /\ Tick
    \/ \E q \in Pools : MoveAssign(q, p) /\ Tick

SpecMove == InitPools /\ [][NextMove]_vars

----------------------------------------------------------------------------
(* Properties. *)

Dist(a, b) == IF a >= b THEN a - b ELSE b - a
Returned(e) == e.op \in {"allocate", "newElement"} /\ ~e.threw
Refused(e) == e.op \in {"allocate", "newElement"} /\ e.threw

(* C1.  One pool, never moved: any two distinct live slot addresses are at
   least sizeof(Slot_) apart, and allocate() never returns an address whose
   slot overlaps a slot that is live when it is called. *)
LiveApart == \A a, b \in live[1] : a # b => Dist(a, b) >= SlotSize
AllocateApart ==
  Returned(event') => \A a \in live[1] : Dist(event'.ret, a) >= SlotSize
C1_NoOverlap == [](LiveApart) /\ [][AllocateApart]_vars

(* Slots of two blocks and of a multi-word slot type are live, the last one
   just returned. *)
C1_Witness ==
  /\ Returned(event)
  /\ SlotSize > PtrSize
  /\ acquired[1] = 2
  /\ Cardinality(live[1]) >= 3

(* C2.  LIFO reuse: allocate() returns the most recently deallocated address
   that has not been handed out again, so n deallocations followed by n
   allocations return the addresses in reverse order; with none left it
   returns an address that is not live. *)
AllocateLifo ==
  Returned(event') =>
    IF freed[1] # <<>> THEN event'.ret = Head(freed[1]) ELSE event'.ret \notin live[1]
C2_LifoReuse == [][AllocateLifo]_vars

(* Two addresses were deallocated, the later one has been returned again and
   the earlier one is next. *)
C2_Witness ==
  /\ Returned(event)
  /\ freed[1] # <<>>
  /\ pool[1].freeSlots_ = Head(freed[1])
  /\ event.ret \notin {freed[1][i] : i \in 1..Len(freed[1])}

(* C3.  Every address allocate() returns is a multiple of alignof(T), whatever
   pointer-aligned base operator new returned. *)
C3_Aligned ==
  /\ Returned(event) => event.ret % alignofT = 0
  /\ \A p \in Pools : \A a \in live[p] : a % alignofT = 0

(* An over-aligned element type, a second block whose body had to be padded,
   and the first slot of that block just returned. *)
C3_Witness ==
  /\ Returned(event)
  /\ alignofT > PtrAlign
  /\ acquired[1] = 2
  /\ event.ret = pool[1].currentBlock_ + PtrSize + (SlotAlign - PtrSize)

(* C4.  When operator new refuses the block, allocate() throws and the four
   members, the block chain and the memory are as they were before the call. *)
FailedAllocateFrame ==
  Refused(event') =>
    /\ pool' = pool
    /\ mem' = mem
    /\ heap' = heap
    /\ live' = live
    /\ acquired' = acquired
C4_FailureLeavesPool == [][FailedAllocateFrame]_vars

(* The refusal came when a second block was needed. *)
C4_Witness ==
  /\ Refused(event)
  /\ pool[1].currentBlock_ # 0
  /\ live[1] # {}

(* Every block the pool has acquired supplies the same number of slots. *)
Uniform(ys) == \A i, j \in 1..Len(ys) : ys[i] = ys[j]
CeilDiv(n, k) == (n + k - 1) \div k

(* C9.  Growth trigger.  With k slots per block and only allocations so far
   (the free list is empty and the live count is at its peak), the call that
   follows n successful ones acquires exactly one block when n is a multiple
   of k (the first call, the (k+1)-th) and none otherwise (calls 2..k), and
   returns an address different from every address returned before. *)
AllocateGrowsWhenFull ==
  LET n == Cardinality(live[1])
  IN (/\ Returned(event')
      /\ freed[1] = <<>>
      /\ peak[1] = n
      /\ Uniform(yields'[1]))
     => LET k == yields'[1][1]
        IN /\ acquired'[1] = IF n % k = 0 THEN acquired[1] + 1 ELSE acquired[1]
           /\ acquired[1] = CeilDiv(n, k)
           /\ event'.ret \notin live[1]
C9_GrowthTrigger == [][AllocateGrowsWhenFull]_vars

(* k = 2 slots per block: the third allocation has just acquired the second
   block, and three distinct addresses are live. *)
C9_Witness ==
  /\ Returned(event)
  /\ yields[1] = <<2, 2>>
  /\ freed[1] = <<>>
  /\ peak[1] = 3
  /\ Cardinality(live[1]) = 3
  /\ event.ret = pool[1].currentSlot_ - SlotSize

(* C10.  The number of blocks acquired is bounded by the peak live count, not
   by the number of calls: with k slots per block, acquired <= ceil(peak / k);
   a block is acquired only when every slot of every block is live. *)
BlocksBoundedByPeak ==
  (yields[1] # <<>> /\ Uniform(yields[1])) =>
     acquired[1] <= CeilDiv(peak[1], yields[1][1])
GrowOnlyWhenAllLive ==
  (acquired'[1] # acquired[1]) =>
     /\ Returned(event')
     /\ acquired'[1] = acquired[1] + 1
     /\ live[1] = UNION { SlotsOfBlock(b) : b \in heap }
C10_BlocksBounded == [](BlocksBoundedByPeak) /\ [][GrowOnlyWhenAllLive]_vars

(* Many calls, few blocks: two blocks of two slots, peak three, and after a run
   of deallocations and reuses the free list holds three slots. *)
C10_Witness ==
  /\ yields[1] = <<2, 2>>
  /\ acquired[1] = 2
  /\ peak[1] = 3
  /\ Len(freed[1]) = 3
  /\ live[1] = {}
  /\ event.op = "deallocate"

(* A cursor or slot address c lies in the block at base b (the first word of a
   block is its back-reference; a bump cursor may stand one past its end). *)
Into(c, b) == b < c /\ c <= b + BlockSize

(* C5.  After B is move-constructed from A, A is in the freshly constructed
   state: its four members are null.  (Stated as claimed; the move
   constructor resets currentBlock_ only.) *)
C5_MovedFromIsEmpty ==
  event.op = "moveConstruct" => pool[event.arg] = NullPool

(* C6.  No block and no slot is referenced by two pools at once: the chains of
   two pools are disjoint, and no pool's bump cursor, limit cursor or free-list
   entry lies in a block of another pool's chain.  (Stated as claimed.) *)
C6_NoSharing ==
  \A p, q \in alive :
    p # q =>
      /\ Chain(p) \cap Chain(q) = {}
      /\ \A b \in Chain(q) :
           /\ ~Into(pool[p].currentSlot_, b)
           /\ ~Into(pool[p].lastSlot_, b)
           /\ \A a \in FreeList(p) : ~Into(a, b)

(* C7.  Allocations, move construction, move assignment and destruction in any
   order: operator delete is only ever handed a block that is held (no block
   is released twice), every block held is in the chain of exactly one pool,
   and once every pool has been destroyed no block is held. *)
C7_ReleasedOnce ==
  /\ undef # "bad free"
  /\ heap = UNION { Chain(p) : p \in alive }
  /\ \A p, q \in alive : p # q => Chain(p) \cap Chain(q) = {}
  /\ alive = {} => heap = {}

(* Pool 2 holds blocks though it never acquired one: it took them over from
   pool 1, which has since been destroyed without releasing them. *)
C7_Witness ==
  /\ event.op = "destroy"
  /\ event.pool = 1
  /\ alive = {2}
  /\ acquired[2] = 0
  /\ Cardinality(Chain(2)) = 2
  /\ heap = Chain(2)

(* C8.  Copy construction yields a pool with four null members and leaves the
   source, the memory and the blocks as they were; a pool never returns an
   address inside a block of another pool's chain, and a pool with null
   members allocates by acquiring a block; destroying a pool releases no
   block of another pool, so every live slot of a pool still in its lifetime
   lies in a block that is held. *)
CopyFrame ==
  event'.op = "copyConstruct" =>
    /\ pool'[event'.pool] = NullPool
    /\ pool'[event'.arg] = pool[event'.arg]
    /\ mem' = mem
    /\ heap' = heap
    /\ live'[event'.arg] = live[event'.arg]
AllocateOwn ==
  Returned(event') =>
    /\ \A q \in alive \ {event'.pool} : \A b \in Chain(q) : ~Into(event'.ret, b)
    /\ pool[event'.pool] = NullPool => heap' # heap /\ Into(event'.ret, pool'[event'.pool].currentBlock_)
DestroyOwn ==
  event'.op = "destroy" =>
    /\ \A q \in alive' : pool'[q] = pool[q]
    /\ heap \ heap' = Chain(event'.pool)
LiveSlotsHeld ==
  \A q \in alive : \A a \in live[q] : Held(heap, a)
C8_CopyIsFresh ==
  [](LiveSlotsHeld) /\ [][CopyFrame /\ AllocateOwn /\ DestroyOwn]_vars

(* The copy was made of a pool with a partly used block, a live slot and a
   free slot. *)
C8_Witness ==
  /\ event.op = "copyConstruct"
  /\ pool[event.pool] = NullPool
  /\ pool[event.arg].freeSlots_ # 0
  /\ live[event.arg] # {}
  /\ ~Exhausted(pool[event.arg])

(* C11.  One pool: no call but the destructor releases a block, however many
   slots are on the free list; while the pool lives, the blocks held are the
   blocks it acquired, all of them on the chain from currentBlock_; the
   destructor's walk ends at the null link of the oldest block and releases
   every one of them, once. *)
AcquiredBlocksHeld ==
  1 \in alive => Chain(1) = heap /\ Cardinality(heap) = acquired[1]
OnlyDestructorReleases ==
  event'.op # "destroy" => heap \subseteq heap'
DestructorReleasesAll ==
  event'.op = "destroy" => heap' = {} /\ undef' = Defined
C11_ReleasedAtDestruction ==
  [](AcquiredBlocksHeld) /\ [][OnlyDestructorReleases /\ DestructorReleasesAll]_vars

(* A pool that acquired two blocks and had three slots live at its peak has
   been destroyed, and nothing is held. *)
C11_Witness ==
  /\ event.op = "destroy"
  /\ acquired[1] = 2
  /\ peak[1] = 3
  /\ heap = {}
  /\ undef = Defined

(* The number of calls of fn in a list of calls. *)
Count(cs, fn) == Cardinality({ i \in 1..Len(cs) : cs[i][1] = fn })

(* C12.  newElement makes one allocate() call and one constructor call, at the
   address returned; deleteElement(p), p not null, makes one destructor call
   and then one deallocate(p).  newElement followed at once by deleteElement of
   its result: one constructor call, one destructor call, the block chain as
   after newElement, and p at the head of the free list. *)
NewElementCalls ==
  (event'.op = "newElement" /\ ~event'.threw) =>
    /\ called' = << <<"allocate", event'.ret>>, <<"construct", event'.ret>> >>
    /\ event'.ret \in live'[1]
DeleteElementCalls ==
  (event'.op = "deleteElement" /\ event'.arg # 0) =>
    /\ called' = << <<"destroy", event'.arg>>, <<"deallocate", event'.arg>> >>
    /\ pool'[1].freeSlots_ = event'.arg
    /\ mem'[event'.arg] = pool[1].freeSlots_
NewThenDelete ==
  (/\ event.op = "newElement" /\ ~event.threw
   /\ event'.op = "deleteElement" /\ event'.arg = event.ret) =>
    /\ Count(called \o called', "construct") = 1
    /\ Count(called \o called', "destroy") = 1
    /\ Count(called \o called', "allocate") = 1
    /\ Count(called \o called', "deallocate") = 1
    /\ Chain(1)' = Chain(1)
    /\ heap' = heap
    /\ pool'[1].freeSlots_ = event.ret
C12_ElementCalls == [][NewElementCalls /\ DeleteElementCalls /\ NewThenDelete]_vars

(* The one element the pool ever held has been deleted: its slot, the first of
   the block, is the whole free list. *)
C12_Witness ==
  /\ event.op = "deleteElement"
  /\ event.arg # 0
  /\ peak[1] = 1
  /\ freed[1] = <<event.arg>>
  /\ pool[1].freeSlots_ = event.arg
  /\ acquired[1] = 1
  /\ Count(called, "destroy") = 1

(* C13.  max_size() is the largest representable block count,
   floor((2^w - 1) / BlockSize), times the number of slots a block supplies
   through bump allocation, and the product does not wrap.  (Stated as
   claimed; max_size() divides BlockSize - sizeof(data_pointer_) by sizeof(Slot_) and
   leaves the padding of the block body out.) *)
C13_MaxSize ==
  event.op = "max_size" =>
    LET maxBlocks == (SizeModulus - 1) \div BlockSize
    IN \A i \in 1..Len(yields[1]) :
         /\ maxBlocks * yields[1][i] < SizeModulus
         /\ event.ret = maxBlocks * yields[1][i]

(* C14.  A block is acquired only by an allocate() made with the free list
   empty and the bump cursor at or past the limit cursor (both null before the
   first block).  With the free list empty and the bump cursor below the
   limit, allocate() returns the bump cursor, advances it by one slot and
   leaves the current block, the limit cursor, the free list and the blocks
   held as they were. *)
GrowthIsLazy ==
  (heap' # heap /\ event'.op # "destroy") =>
    /\ Returned(event')
    /\ pool[1].freeSlots_ = 0
    /\ pool[1].currentSlot_ >= pool[1].lastSlot_
BumpFrame ==
  (/\ Returned(event')
   /\ pool[1].freeSlots_ = 0
   /\ pool[1].currentSlot_ < pool[1].lastSlot_) =>
    /\ event'.ret = pool[1].currentSlot_
    /\ pool'[1] = [pool[1] EXCEPT !.currentSlot_ = pool[1].currentSlot_ + SlotSize]
    /\ heap' = heap
    /\ acquired' = acquired
C14_LazyGrowth == [][GrowthIsLazy /\ BumpFrame]_vars

(* The second slot of a block has just been returned by bump allocation, the
   first one being live. *)
C14_Witness ==
  /\ Returned(event)
  /\ pool[1].freeSlots_ = 0
  /\ event.ret = pool[1].currentSlot_ - SlotSize
  /\ event.ret - SlotSize \in live[1]
  /\ Into(event.ret - SlotSize, pool[1].currentBlock_)

(* C15.  With the free list not empty, allocate() returns its head, makes the
   link stored in that slot the new head, and leaves the current block, the
   bump cursor, the limit cursor, the chain and the blocks held as they were,
   whether the current block has room or not. *)
PopFrame ==
  (Returned(event') /\ pool[1].freeSlots_ # 0) =>
    /\ event'.ret = pool[1].freeSlots_
    /\ pool'[1] = [pool[1] EXCEPT !.freeSlots_ = mem[pool[1].freeSlots_]]
    /\ heap' = heap
    /\ acquired' = acquired
    /\ Chain(1)' = Chain(1)
C15_PopFreeList == [][PopFrame]_vars

(* A slot was taken from the free list, which still holds another one, while
   the only block was used up. *)
C15_Witness ==
  /\ Returned(event)
  /\ freed[1] # <<>>
  /\ pool[1].freeSlots_ = Head(freed[1])
  /\ Exhausted(pool[1])
  /\ acquired[1] = 1
  /\ event.ret \in live[1]

(* C16.  deallocate(p) of a live p stores the former head of the free list in
   slot p and makes p the head: the free list becomes p followed by the former
   list in its order.  The current block, the bump cursor, the limit cursor
   and the blocks held are as before; no block is acquired or released. *)
DeallocateFrame ==
  (event'.op \in {"deallocate", "deleteElement"} /\ event'.arg # 0) =>
    /\ mem'[event'.arg] = pool[1].freeSlots_
    /\ pool'[1] = [pool[1] EXCEPT !.freeSlots_ = event'.arg]
    /\ FreeSlots(1)' = <<event'.arg>> \o FreeSlots(1)
    /\ \A a \in DOMAIN mem \ {event'.arg} : mem'[a] = mem[a]
    /\ heap' = heap
    /\ acquired' = acquired
C16_PushFreeList == [][DeallocateFrame]_vars

(* The third slot in a row has been deallocated: the free list is the three
   in the reverse of the order of their deallocation. *)
C16_Witness ==
  /\ event.op = "deallocate"
  /\ event.arg # 0
  /\ Len(FreeSlots(1)) = 3
  /\ FreeSlots(1) = freed[1]
  /\ Head(FreeSlots(1)) = event.arg

(* C17.  target = std::move(source), two distinct pools: the two currentBlock_
   are exchanged, so each pool owns the other's former chain, and target's
   currentSlot_, lastSlot_ and freeSlots_ become source's; nothing is released
   by the assignment, and a chain is released when, and only when, the pool
   owning it is destroyed, so target's former blocks go with source.  Self
   assignment changes nothing. *)
MoveAssignExchanges ==
  (event'.op = "moveAssign" /\ event'.pool # event'.arg) =>
    LET target == event'.pool
        source == event'.arg
    IN /\ pool'[target] = pool[source]
       /\ pool'[source] = [pool[source] EXCEPT !.currentBlock_ = pool[target].currentBlock_]
       /\ ChainOf(pool'[target], mem') = ChainOf(pool[source], mem)
       /\ ChainOf(pool'[source], mem') = ChainOf(pool[target], mem)
       /\ heap' = heap
       /\ mem' = mem
SelfMoveAssign ==
  (event'.op = "moveAssign" /\ event'.pool = event'.arg) =>
    pool' = pool /\ mem' = mem /\ heap' = heap /\ live' = live
ReleasedWithOwner ==
  /\ event'.op = "destroy" =>
       heap \ heap' = ChainOf(pool[event'.pool], mem) /\ heap' \subseteq heap
  /\ event'.op # "destroy" => heap \subseteq heap'
Within(p, b) == b + PtrSize <= p /\ p + SlotSize <= b + BlockSize
SlotsWithinBlocks ==
  \A p \in live[1] : \E b \in heap : Within(p, b)
GrowthSuppliesSlot ==
  (acquired'[1] # acquired[1]) =>
    /\ event'.ret < pool'[1].lastSlot_
    /\ Within(event'.ret, pool'[1].currentBlock_)
BumpWithinBlock ==
  (Returned(event') /\ pool[1].freeSlots_ = 0) =>
    Within(event'.ret, pool'[1].currentBlock_)
C18_BlockLayout ==
  [](StaticAssert /\ SlotsWithinBlocks) /\ [][GrowthSuppliesSlot /\ BumpWithinBlock]_vars

(* The tightest block of an over-aligned type: BlockSize = 2 * sizeof(Slot_),
   the body padded, and the slot returned ends where the block ends. *)
C18_Witness ==
  /\ Returned(event)
  /\ alignofT > PtrAlign
  /\ BlockSize = 2 * SlotSize
  /\ event.ret = pool[1].currentBlock_ + 2 * PtrSize
  /\ event.ret + SlotSize = pool[1].currentBlock_ + BlockSize

(* C19.  One pool, deallocate only of live addresses: the slots handed out by
   bump allocation are partitioned into the live ones and the free list.  The
   free list ends in null without a cycle, holds no slot twice, holds no live
   slot, holds only slots below the bump cursor of their block, and its length
   is the number of slots bumped less the number of live ones. *)
C19_FreeListPartition ==
  LET fs == FreeSlots(1)
      onList == { fs[i] : i \in 1..Len(fs) }
  IN /\ Junk \notin onList
     /\ Cardinality(onList) = Len(fs)
     /\ onList \cap live[1] = {}
     /\ onList \subseteq Bumped(1)
     /\ onList \cup live[1] = Bumped(1)
     /\ Len(fs) = Cardinality(Bumped(1)) - Cardinality(live[1])
     /\ fs = freed[1]

(* Three slots of two blocks have been bumped, the second block has room; one
   slot is live and two are on the free list. *)
C19_Witness ==
  /\ Len(FreeSlots(1)) = 2
  /\ Cardinality(live[1]) = 1
  /\ acquired[1] = 2
  /\ Cardinality(Bumped(1)) = 3
  /\ ~Exhausted(pool[1])

(* C20.  deallocate(nullptr) and deleteElement(nullptr) change nothing: the
   four members, the memory and the free list are as before, no destructor is
   called, and the next allocate() returns what it would have returned without
   the call. *)
NullIsNoOp ==
  (event'.op \in {"deallocate", "deleteElement"} /\ event'.arg = 0) =>
    /\ pool' = pool
    /\ mem' = mem
    /\ heap' = heap
    /\ live' = live
    /\ FreeSlots(1)' = FreeSlots(1)
    /\ Count(called', "destroy") = 0
    /\ \A nb \in OperatorNew(heap) :
         allocate(pool'[1], mem', nb) = allocate(pool[1], mem, nb)
C20_NullIsNoOp == [][NullIsNoOp]_vars

(* deleteElement(nullptr) on a pool with a live slot and a free list. *)
C20_Witness ==
  /\ event.op = "deleteElement"
  /\ event.arg = 0
  /\ pool[1].freeSlots_ # 0
  /\ live[1] # {}
  /\ called = << >>

====
